---- MODULE Spec2Model ----
(***************************************************************************)
(* Model of src/Minimalist/Minimalist-Content-Creator.py: the CLI read     *)
(* loop `main` and the retrying HTTP client `generate_content`.            *)
(*                                                                         *)
(* One behaviour is one run of the process.  The environment supplies the  *)
(* GEMINI_API_KEY variable, the lines typed at the prompt and, for every   *)
(* request sent, the outcome of the transport (an HTTP error status, a     *)
(* network error, or an HTTP success with some response body).             *)
(***************************************************************************)
EXTENDS Integers, Sequences, FiniteSets, TLC

VARIABLES
    pc,         \* where the process is: "prompt", "call", "sending", "returned", "raised", "exited"
    apiKey,     \* value of os.getenv("GEMINI_API_KEY") for this process
    calls,      \* number of generate_content calls main has made
    attempt,    \* loop variable of `for attempt in range(MAX_RETRIES)`
    received,   \* responses received by requests.post in the current call, in order
    sleeps,     \* arguments of time.sleep in the current call, in order
    events,     \* "req" / "sleep" in the order they happened in the current call
    result,     \* value returned by the current call (None until it returns)
    outcome,    \* the branch that ended the current call
    rawPrinted  \* TRUE when line 87 printed the raw response body

vars == <<pc, apiKey, calls, attempt, received, sleeps, events, result, outcome, rawPrinted>>

----------------------------------------------------------------------------
(* Bounds and program constants *)

MaxCalls == 2

MAX_RETRIES == 5
BASE_DELAY == 1

RetryableStatus == {429, 500, 503}
OtherErrorStatus == {400, 401, 404}

----------------------------------------------------------------------------
(* JSON values as Python sees them after response.json() *)

Null == [t |-> "null", v |-> 0]
Str(s) == [t |-> "str", v |-> s]
Num(n) == [t |-> "num", v |-> n]
List(q) == [t |-> "list", v |-> q]
Obj(f) == [t |-> "obj", v |-> f]
EmptyObj == [t |-> "obj", v |-> <<>>]
NotJson(raw) == [t |-> "invalid", v |-> raw]

WithText(x) ==
    Obj([candidates |-> List(<<Obj([content |-> Obj([parts |-> List(<<Obj([text |-> x])>>)])])>>)])

Bodies ==
    << NotJson(""),
       NotJson("<html>"),
       EmptyObj,
       Obj([candidates |-> Null]),
       Obj([candidates |-> Str("x")]),
       Obj([candidates |-> EmptyObj]),
       Obj([candidates |-> List(<<>>)]),
       Obj([candidates |-> List(<<Null>>)]),
       Obj([candidates |-> List(<<Obj([content |-> Null])>>)]),
       Obj([candidates |-> List(<<Obj([content |-> Obj([parts |-> List(<<>>)])])>>)]),
       Obj([candidates |-> List(<<Obj([content |-> Obj([parts |-> List(<<EmptyObj>>)])])>>)]),
       WithText(Null),
       WithText(Str("")),
       WithText(Str("HELLO")),
       WithText(Num(42)),
       List(<<>>) >>

HttpError(s) == [kind |-> "http", status |-> s, body |-> 0]
NetworkError == [kind |-> "net", status |-> 0, body |-> 0]
HttpOk(b) == [kind |-> "ok", status |-> 200, body |-> b]

ApiKeys == {"<unset>", "", "k3y"}

UserInputs == {"quit", "EXIT", "", "  ", "hello"}

----------------------------------------------------------------------------
(* Python expression evaluation: a value or a raised exception *)

Ret(x) == [exc |-> "none", val |-> x]
Raise(e) == [exc |-> e, val |-> Null]

\* x.get(key, default): only dicts have .get
PyGet(r, key, default) ==
    IF r.exc # "none" THEN r
    ELSE IF r.val.t = "obj"
         THEN Ret(IF key \in DOMAIN r.val.v THEN r.val.v[key] ELSE default)
         ELSE Raise("AttributeError")

FirstChar(s) == IF s = "HELLO" THEN "H" ELSE s

\* x[0]
PyIndex0(r) ==
    IF r.exc # "none" THEN r
    ELSE CASE r.val.t = "list" -> IF Len(r.val.v) = 0 THEN Raise("IndexError") ELSE Ret(r.val.v[1])
           [] r.val.t = "str"  -> IF r.val.v = "" THEN Raise("IndexError") ELSE Ret(Str(FirstChar(r.val.v)))
           [] r.val.t = "obj"  -> Raise("KeyError")
           [] OTHER            -> Raise("TypeError")

\* response.json()
JsonParse(body) == IF body.t = "invalid" THEN Raise("JSONDecodeError") ELSE Ret(body)

\* lines 61-63
ExtractText(body) ==
    LET data      == JsonParse(body)
        candidate == PyIndex0(PyGet(data, "candidates", List(<<EmptyObj>>)))
        part      == PyIndex0(PyGet(PyGet(candidate, "content", EmptyObj), "parts", List(<<EmptyObj>>)))
    IN  PyGet(part, "text", Null)

\* Python truth value
Truthy(x) ==
    CASE x.t = "null" -> FALSE
      [] x.t = "str"  -> x.v # ""
      [] x.t = "num"  -> x.v # 0
      [] x.t = "list" -> Len(x.v) # 0
      [] x.t = "obj"  -> DOMAIN x.v # {}
      [] OTHER        -> FALSE

\* response.text is non-empty
HasRawText(body) == ~(body.t = "invalid" /\ body.v = "")

\* variant: `if api_key is None` (an empty key passes)
HasCredentialNotNone(key) == key # "<unset>"

\* line 32: `if not api_key`
HasCredential(key) == key # "<unset>" /\ key # ""

\* variant: the status is not looked at
ShouldRetryAnyStatus(status, att) == att < MAX_RETRIES - 1

\* variant: `attempt < MAX_RETRIES` (the last attempt sleeps too)
ShouldRetryThroughLast(status, att) == status \in RetryableStatus /\ att < MAX_RETRIES

\* line 70
ShouldRetry(status, att) == status \in RetryableStatus /\ att < MAX_RETRIES - 1

\* variant: the exponent counts attempts from one
DelayFromOne(att) == BASE_DELAY * (2 ^ (att + 1))

\* line 71
Delay(att) == BASE_DELAY * (2 ^ att)

\* line 83
ParseExceptions == {"JSONDecodeError", "IndexError", "KeyError"}

\* response.json() raises requests.exceptions.JSONDecodeError (a RequestException,
\* caught at line 79) in requests >= 2.27 and json.JSONDecodeError (caught at
\* line 83) in older releases; the repository pins no version.
JsonErrorHandlers == {"RequestException", "ParseError"}

Lower(u) == IF u = "EXIT" THEN "exit" ELSE u
Strip(u) == IF u = "  " THEN "" ELSE u

----------------------------------------------------------------------------
Init ==
    /\ pc = "prompt"
    /\ apiKey \in ApiKeys
    /\ calls = 0
    /\ attempt = 0
    /\ received = <<>>
    /\ sleeps = <<>>
    /\ events = <<>>
    /\ result = Null
    /\ outcome = "none"
    /\ rawPrinted = FALSE

call_vars == <<attempt, received, sleeps, events, result, outcome, rawPrinted>>

(* main, lines 105-125 *)

MainQuit ==
    /\ pc = "prompt"
    /\ \E u \in UserInputs : Lower(u) \in {"quit", "exit"}
    /\ pc' = "exited"
    /\ UNCHANGED <<apiKey, calls, call_vars>>

MainBlank ==
    /\ pc = "prompt"
    /\ \E u \in UserInputs : Lower(u) \notin {"quit", "exit"} /\ Strip(u) = ""
    /\ UNCHANGED vars

MainKeyboardInterrupt ==
    /\ pc = "prompt"
    /\ pc' = "exited"
    /\ UNCHANGED <<apiKey, calls, call_vars>>

MainQuery ==
    /\ pc = "prompt"
    /\ calls < MaxCalls
    /\ \E u \in UserInputs : Lower(u) \notin {"quit", "exit"} /\ Strip(u) # ""
    /\ pc' = "call"
    /\ calls' = calls + 1
    /\ attempt' = 0
    /\ received' = <<>>
    /\ sleeps' = <<>>
    /\ events' = <<>>
    /\ result' = Null
    /\ outcome' = "none"
    /\ rawPrinted' = FALSE
    /\ UNCHANGED apiKey

MainReturn ==
    /\ pc = "returned"
    /\ pc' = "prompt"
    /\ UNCHANGED <<apiKey, calls, call_vars>>

MainUnexpected ==
    /\ pc = "raised"
    /\ pc' = "exited"
    /\ UNCHANGED <<apiKey, calls, call_vars>>

(* generate_content, lines 31-91 *)

Finish(how) ==
    /\ pc' = "returned"
    /\ result' = Null
    /\ outcome' = how

\* the loop body ended without return or break
NextIteration ==
    IF attempt + 1 < MAX_RETRIES
    THEN /\ pc' = "sending"
         /\ attempt' = attempt + 1
         /\ UNCHANGED <<result, outcome>>
    ELSE /\ Finish("Exhausted")
         /\ UNCHANGED attempt

Send(resp) ==
    /\ pc = "sending"
    /\ received' = Append(received, resp)

GenMissingCredential ==
    /\ pc = "call"
    /\ ~HasCredential(apiKey)
    /\ Finish("MissingCredential")
    /\ UNCHANGED <<apiKey, calls, attempt, received, sleeps, events, rawPrinted>>

GenEnterLoop ==
    /\ pc = "call"
    /\ HasCredential(apiKey)
    /\ pc' = "sending"
    /\ attempt' = 0
    /\ UNCHANGED <<apiKey, calls, received, sleeps, events, result, outcome, rawPrinted>>

AttemptSuccess ==
    \E b \in DOMAIN Bodies :
        LET text == ExtractText(Bodies[b]) IN
        /\ Send(HttpOk(b))
        /\ text.exc = "none" /\ Truthy(text.val)
        /\ events' = Append(events, "req")
        /\ pc' = "returned"
        /\ result' = text.val
        /\ outcome' = "Succeeded"
        /\ UNCHANGED <<apiKey, calls, attempt, sleeps, rawPrinted>>

AttemptNoText ==
    \E b \in DOMAIN Bodies :
        LET text == ExtractText(Bodies[b]) IN
        /\ Send(HttpOk(b))
        /\ text.exc = "none" /\ ~Truthy(text.val)
        /\ events' = Append(events, "req")
        /\ NextIteration
        /\ UNCHANGED <<apiKey, calls, sleeps, rawPrinted>>

AttemptHttpRetry ==
    \E s \in RetryableStatus \cup OtherErrorStatus :
        /\ Send(HttpError(s))
        /\ ShouldRetry(s, attempt)
        /\ sleeps' = Append(sleeps, Delay(attempt))
        /\ events' = events \o <<"req", "sleep">>
        /\ NextIteration
        /\ UNCHANGED <<apiKey, calls, rawPrinted>>

AttemptHttpFatal ==
    \E s \in RetryableStatus \cup OtherErrorStatus :
        /\ Send(HttpError(s))
        /\ ~ShouldRetry(s, attempt)
        /\ events' = Append(events, "req")
        /\ Finish("FatalHTTP")
        /\ UNCHANGED <<apiKey, calls, attempt, sleeps, rawPrinted>>

\* variant: a network error is handled like a retryable status
AttemptRequestExceptionRetried ==
    /\ Send(NetworkError)
    /\ sleeps' = Append(sleeps, Delay(attempt))
    /\ events' = events \o <<"req", "sleep">>
    /\ NextIteration
    /\ UNCHANGED <<apiKey, calls, rawPrinted>>

AttemptRequestException ==
    /\ Send(NetworkError)
    /\ events' = Append(events, "req")
    /\ Finish("RequestException")
    /\ UNCHANGED <<apiKey, calls, attempt, sleeps, rawPrinted>>

AttemptParseError ==
    \E b \in DOMAIN Bodies :
        LET text == ExtractText(Bodies[b]) IN
        /\ Send(HttpOk(b))
        /\ text.exc \in ParseExceptions
        /\ events' = Append(events, "req")
        /\ \E h \in (IF text.exc = "JSONDecodeError" THEN JsonErrorHandlers ELSE {"ParseError"}) :
              /\ Finish(h)
              /\ rawPrinted' = (h = "ParseError" /\ HasRawText(Bodies[b]))
        /\ UNCHANGED <<apiKey, calls, attempt, sleeps>>

AttemptUncaught ==
    \E b \in DOMAIN Bodies :
        LET text == ExtractText(Bodies[b]) IN
        /\ Send(HttpOk(b))
        /\ text.exc \notin ParseExceptions \cup {"none"}
        /\ events' = Append(events, "req")
        /\ pc' = "raised"
        /\ outcome' = text.exc
        /\ UNCHANGED <<apiKey, calls, attempt, sleeps, result, rawPrinted>>

Next ==
    \/ MainQuit
    \/ MainBlank
    \/ MainKeyboardInterrupt
    \/ MainQuery
    \/ MainReturn
    \/ MainUnexpected
    \/ GenMissingCredential
    \/ GenEnterLoop
    \/ AttemptSuccess
    \/ AttemptNoText
    \/ AttemptHttpRetry
    \/ AttemptHttpFatal
    \/ AttemptRequestException
    \/ AttemptParseError
    \/ AttemptUncaught

Spec == Init /\ [][Next]_vars

----------------------------------------------------------------------------
(* Properties *)

CallEnded == outcome # "none"

IsRetryableError(r) == r.kind = "http" /\ r.status \in RetryableStatus

\* number of requests among the first j events
ReqsUpTo(j) == Cardinality({i \in 1..j : events[i] = "req"})

\* number of sleeps among the first j events
SleepsUpTo(j) == Cardinality({i \in 1..j : events[i] = "sleep"})

\* the value at candidates[0].content.parts[0].text when every step of the
\* path is present with the expected type, Null otherwise
StrictText(v) ==
    IF ~(v.t = "obj" /\ "candidates" \in DOMAIN v.v) THEN Null
    ELSE LET c == v.v["candidates"] IN
    IF ~(c.t = "list" /\ Len(c.v) > 0) THEN Null
    ELSE LET c0 == c.v[1] IN
    IF ~(c0.t = "obj" /\ "content" \in DOMAIN c0.v) THEN Null
    ELSE LET ct == c0.v["content"] IN
    IF ~(ct.t = "obj" /\ "parts" \in DOMAIN ct.v) THEN Null
    ELSE LET ps == ct.v["parts"] IN
    IF ~(ps.t = "list" /\ Len(ps.v) > 0) THEN Null
    ELSE LET p0 == ps.v[1] IN
    IF ~(p0.t = "obj" /\ "text" \in DOMAIN p0.v) THEN Null
    ELSE LET tx == p0.v["text"] IN
    IF tx.t = "str" THEN tx ELSE Null

\* body b is a JSON object without a `candidates` key
NoCandidatesKey(b) == Bodies[b].t = "obj" /\ "candidates" \notin DOMAIN Bodies[b].v

\* body b carries a text field that is the empty string
EmptyText(b) == LET x == StrictText(Bodies[b]) IN x.t = "str" /\ x.v = ""

\* C1: for each status s in {429, 500, 503}, a call whose every attempt got
\* HTTP error s has sent exactly MAX_RETRIES requests, has slept exactly
\* MAX_RETRIES-1 times with delays BASE_DELAY*2^0 .. BASE_DELAY*2^(MAX_RETRIES-2)
\* in that order, one sleep between consecutive requests and none after the
\* last, and has returned None.
C1_RetryableExhaustion ==
    \A s \in RetryableStatus :
        (/\ CallEnded
         /\ Len(received) > 0
         /\ \A i \in DOMAIN received : received[i] = HttpError(s))
        => /\ Len(received) = MAX_RETRIES
           /\ Len(sleeps) = MAX_RETRIES - 1
           /\ \A k \in DOMAIN sleeps : sleeps[k] = BASE_DELAY * (2 ^ (k - 1))
           /\ Len(events) = 2 * MAX_RETRIES - 1
           /\ \A j \in DOMAIN events : events[j] = (IF j % 2 = 1 THEN "req" ELSE "sleep")
           /\ pc # "raised"
           /\ result.t = "null"

C1_Witness ==
    /\ pc = "returned"
    /\ Len(received) = MAX_RETRIES
    /\ \A i \in DOMAIN received : received[i] = HttpError(503)

\* C2: a call whose first attempt got an HTTP error status outside
\* {429, 500, 503} has sent exactly one request, has not slept, and has
\* returned None.
C2_NonRetryableStopsAtOnce ==
    \A s \in OtherErrorStatus :
        (Len(received) > 0 /\ received[1] = HttpError(s))
        => /\ Len(received) = 1
           /\ Len(sleeps) = 0
           /\ events = <<"req">>
           /\ pc \notin {"sending", "raised"}
           /\ CallEnded
           /\ result.t = "null"

C2_Witness ==
    /\ pc = "returned"
    /\ received = <<HttpError(404)>>

\* C3: when GEMINI_API_KEY is unset or empty, a call returns None with no
\* request sent and no sleep done.
C3_MissingCredentialNoIO ==
    (apiKey \in {"<unset>", ""})
    => /\ Len(received) = 0
       /\ Len(sleeps) = 0
       /\ Len(events) = 0
       /\ pc \notin {"sending", "raised"}
       /\ (calls > 0 /\ pc # "call") => (outcome = "MissingCredential" /\ result.t = "null")

C3_Witness ==
    /\ pc = "returned"
    /\ apiKey = ""
    /\ outcome = "MissingCredential"

\* C4: a call that received an HTTP success whose JSON body has no
\* `candidates` key has ended, once it is over, in the parse-failure branch
\* with the raw body printed, that response being the last one of the call,
\* and no exception has left it.
C4_NoCandidatesIsParseFailure ==
    \A i \in DOMAIN received :
        (CallEnded /\ received[i].kind = "ok" /\ NoCandidatesKey(received[i].body))
        => /\ i = Len(received)
           /\ outcome = "ParseError"
           /\ rawPrinted
           /\ pc # "raised"

\* C5: no exception leaves generate_content, and no call ends the read loop
\* of main.
C5_NoExceptionEscapes ==
    /\ pc # "raised"
    /\ pc = "exited" => outcome \notin {"TypeError", "AttributeError"}

\* C6: an HTTP success whose text is the empty string is the last response of
\* its call: no further request follows, the call returns None.
C6_EmptyTextEndsCall ==
    \A i \in DOMAIN received :
        (received[i].kind = "ok" /\ EmptyText(received[i].body))
        => /\ i = Len(received)
           /\ pc # "sending"
           /\ CallEnded
           /\ result.t = "null"

\* C7: within a call every request after the first directly follows a sleep;
\* every sleep directly follows a request answered by 429, 500 or 503 and
\* lasts BASE_DELAY*2^(index of that request); nothing follows the end of
\* the call.
C7_StateMachine ==
    /\ \A j \in 2..Len(events) : events[j] = "req" => events[j - 1] = "sleep"
    /\ \A j \in DOMAIN events :
          events[j] = "sleep"
          => /\ j > 1
             /\ events[j - 1] = "req"
             /\ IsRetryableError(received[ReqsUpTo(j)])
             /\ sleeps[SleepsUpTo(j)] = BASE_DELAY * (2 ^ (ReqsUpTo(j) - 1))
    /\ CallEnded => pc \notin {"call", "sending"}
    /\ (CallEnded /\ Len(events) > 0) => events[Len(events)] = "req"

\* C8: a call that returned gives either None or the non-empty string found
\* at candidates[0].content.parts[0].text of its last, HTTP-success, response.
C8_SuccessIsNonEmptyString ==
    (CallEnded /\ pc # "raised" /\ result.t # "null")
    => /\ result.t = "str"
       /\ result.v # ""
       /\ Len(received) > 0
       /\ received[Len(received)].kind = "ok"
       /\ StrictText(Bodies[received[Len(received)].body]).t = "str"
       /\ StrictText(Bodies[received[Len(received)].body]).v = result.v

\* C9: a network error is the last thing that happens in its call: it is the
\* last response, the last event is its request (no sleep after it), and the
\* call has returned None.
C9_NetworkErrorEndsCall ==
    \A i \in DOMAIN received :
        received[i] = NetworkError
        => /\ i = Len(received)
           /\ events[Len(events)] = "req"
           /\ Len(events) = Len(received) + Len(sleeps)
           /\ Len(sleeps) < Len(received)
           /\ pc \notin {"sending", "raised"}
           /\ outcome = "RequestException"
           /\ result.t = "null"

C9_Witness ==
    /\ pc = "returned"
    /\ received = <<HttpError(429), HttpError(500), NetworkError>>
    /\ sleeps = <<1, 2>>

AllRetryable ==
    /\ CallEnded
    /\ Len(received) > 0
    /\ \A i \in DOMAIN received : IsRetryableError(received[i])

\* C10 as stated: with MAX_RETRIES = 5 and BASE_DELAY = 1, a call whose every
\* attempt got 429, 500 or 503 has slept 1, 2, 4, 8 and 16 seconds.
C10_SleepsThroughSixteen ==
    AllRetryable => sleeps = <<1, 2, 4, 8, 16>>

\* C10 amended: with MAX_RETRIES = 5 and BASE_DELAY = 1, a call whose every
\* attempt got 429, 500 or 503 has slept 1, 2, 4 and 8 seconds, in that order,
\* and no more: the fifth failure ends the call without a sleep.
C10_SleepsThroughEight ==
    /\ MAX_RETRIES = 5
    /\ BASE_DELAY = 1
    /\ AllRetryable => (sleeps = <<1, 2, 4, 8>> /\ outcome = "FatalHTTP")

C10_Witness ==
    /\ pc = "returned"
    /\ received = <<HttpError(429), HttpError(500), HttpError(503), HttpError(429), HttpError(500)>>
    /\ sleeps = <<1, 2, 4, 8>>

====
